---- MODULE Spec2Model ----
(***************************************************************************)
(* Model of the LogsTable component (src/app/components/LogsTable.tsx):    *)
(* the React state (filters, logs, networkOptions, strategyOptions), the   *)
(* effect that starts fetchLogs and fetchFilterOptions on every filter     *)
(* change, the query each one builds and the answers of the remote "logs"  *)
(* table.  An await is a point where another handler or another answer can *)
(* be processed, so every awaited fetch is an action of its own.           *)
(***************************************************************************)
EXTENDS Integers, Sequences, FiniteSets, TLC

VARIABLES
    store,            \* the rows of the remote "logs" table
    filters,          \* useState<Filters>
    logs,             \* useState<Log[]>
    networkOptions,   \* useState<string[]>
    strategyOptions,  \* useState<string[]>
    logsTasks,        \* fetchLogs invocations suspended at an await
    optionsTasks,     \* fetchFilterOptions invocations suspended at an await
    consoleErrors,    \* the messages console.error has written
    started,          \* number of runs of the effect so far
    outcome           \* what the fetches of the newest run of the effect answered

vars == <<store, filters, logs, networkOptions, strategyOptions, logsTasks,
          optionsTasks, consoleErrors, started, outcome>>

(***************************************************************************)
(* Bounds.                                                                 *)
(***************************************************************************)
MaxRows == 4        \* most rows in the table, in SpecRefresh

MaxRefresh == 2     \* most runs of the effect in one behaviour, in Spec

(***************************************************************************)
(* Values.  null is the empty tuple and a present value v is <<v>>, so     *)
(* that null, false and 0 stay three different values.                     *)
(***************************************************************************)
Null == <<>>

Some(v) == <<v>>

\* The characters of the strings that are matched by pattern.
CharsOf(s) ==
    CASE s = "" -> <<>>
      [] s = "b" -> <<"b">>
      [] s = "0xA" -> <<"0", "x", "A">>
      [] s = "0xB" -> <<"0", "x", "B">>
      [] s = "transaction_hash" ->
            <<"t", "r", "a", "n", "s", "a", "c", "t", "i", "o", "n", "_",
              "h", "a", "s", "h">>

Lower(c) ==
    CASE c = "A" -> "a"
      [] c = "B" -> "b"
      [] OTHER -> c

\* PostgreSQL's (I)LIKE on character sequences: % matches any run of
\* characters, _ any one character, every other character itself up to case.
RECURSIVE ILike(_, _)
ILike(pattern, str) ==
    IF pattern = <<>> THEN str = <<>>
    ELSE IF Head(pattern) = "%"
         THEN ILike(Tail(pattern), str)
              \/ (str # <<>> /\ ILike(pattern, Tail(str)))
    ELSE IF str = <<>> THEN FALSE
    ELSE /\ (Head(pattern) = "_" \/ Lower(Head(pattern)) = Lower(Head(str)))
         /\ ILike(Tail(pattern), Tail(str))

\* Date.prototype.toISOString: the instant, written as a UTC text.
toISOString(date) == <<"iso", "Z", date>>

\* The instant a timestamptz literal denotes.
ParseTimestamp(text) == text[3]

\* The collation of the text columns network and strategy.
Collate(s) ==
    CASE s = "ethereum" -> 1
      [] s = "polygon" -> 2
      [] s = "s1" -> 3
      [] s = "s2" -> 4

(***************************************************************************)
(* The table.  exchange, transaction_index and log_index are never read by *)
(* a query; log_index stands here for the identity of the row.             *)
(***************************************************************************)
Row(i, n, s, b, h, r, c) ==
    [log_index |-> i, network |-> n, strategy |-> s, block_number |-> Some(b),
     transaction_hash |-> h, removed |-> r, created_at |-> Some(c)]

RowPool ==
    { Row(1, Some("ethereum"), Some("s1"), 0, Some("0xA"), Null, 1),
      Row(2, Some("ethereum"), Some("s1"), 1, Some("0xB"), Some(FALSE), 2),
      Row(3, Some("polygon"), Some("s2"), 1, Some("0xB"), Some(TRUE), 2),
      Row(4, Null, Null, 0, Some("0xB"), Some(FALSE), 3),
      Row(5, Some("ethereum"), Some("s1"), 1, Some("transaction_hash"), Some(FALSE), 1),
      Row(6, Some("polygon"), Some("s1"), 1, Some("transaction_hash"), Some(TRUE), 3) }

Stores == {S \in SUBSET RowPool : Cardinality(S) <= MaxRows}

\* The table of the interleaving specification: two rows that differ in
\* block_number, transaction_hash, removed and created_at.
StoreOfSpec == {r \in RowPool : r.log_index \in {1, 2}}

(***************************************************************************)
(* interface Filters, and what the inputs of the form can put in it.       *)
(***************************************************************************)
InitialFilters ==
    [network |-> "", strategy |-> "", block_number |-> Null,
     transaction_hash |-> "", removed |-> Null, created_at |-> Null,
     showDuplicates |-> FALSE]

NetworkInputs == {"", "ethereum"}

StrategyInputs == {"", "s1"}

BlockNumberInputs == {Null, Some(0), Some(1)}

TransactionHashInputs == {"", "b"}

\* boolean | "indeterminate", the argument of onCheckedChange.
CheckedInputs == {"true", "false", "indeterminate"}

DateInputs == {Null, Some(2)}

FilterStates ==
    [network : NetworkInputs, strategy : StrategyInputs,
     block_number : BlockNumberInputs, transaction_hash : TransactionHashInputs,
     removed : {Null, Some(TRUE), Some(FALSE)}, created_at : DateInputs,
     showDuplicates : BOOLEAN]

(***************************************************************************)
(* The query builder of supabase-js: a query is the sequence of the        *)
(* filters added to it.                                                    *)
(***************************************************************************)
eq(column, value) == [col |-> column, op |-> "eq", val |-> value]

ilike(column, pattern) == [col |-> column, op |-> "ilike", val |-> pattern]

gte(column, value) == [col |-> column, op |-> "gte", val |-> value]

in(column, values) == [col |-> column, op |-> "in", val |-> values]

notIsNull(column) == [col |-> column, op |-> "not.is", val |-> Null]

TruthyNumberMutant(n) == n # Null

\* JavaScript's truthiness of a number | null.
TruthyNumber(n) == n # Null /\ n[1] # 0

\* `%${filters.transaction_hash}%`
HashPattern(text) == <<"%">> \o CharsOf(text) \o <<"%">>

RemovedIsSetMutant(removed) == removed # Null /\ removed[1]

\* filters.removed !== null
RemovedIsSet(removed) == removed # Null

\* The filters fetchLogs adds for the fields of `filters`, in the order it
\* adds them.
BuildQuery(f) ==
    (IF f.network # "" THEN <<eq("network", f.network)>> ELSE <<>>)
    \o (IF f.strategy # "" THEN <<eq("strategy", f.strategy)>> ELSE <<>>)
    \o (IF TruthyNumber(f.block_number)
        THEN <<eq("block_number", f.block_number[1])>> ELSE <<>>)
    \o (IF f.transaction_hash # ""
        THEN <<ilike("transaction_hash", HashPattern(f.transaction_hash))>>
        ELSE <<>>)
    \o (IF RemovedIsSet(f.removed) THEN <<eq("removed", f.removed[1])>> ELSE <<>>)
    \o (IF f.created_at # Null
        THEN <<gte("created_at", toISOString(f.created_at[1]))>> ELSE <<>>)

\* The query of the duplicate scan.
DuplicateHashesQuery ==
    <<eq("transaction_hash", "transaction_hash"), notIsNull("transaction_hash")>>

(***************************************************************************)
(* The table's side: which rows a query selects, and in which order.       *)
(***************************************************************************)
\* A comparison with a null column is never true.
Matches(row, c) ==
    CASE c.op = "eq" -> row[c.col] # Null /\ row[c.col][1] = c.val
      [] c.op = "ilike" ->
            row[c.col] # Null /\ ILike(c.val, CharsOf(row[c.col][1]))
      [] c.op = "gte" ->
            row[c.col] # Null /\ row[c.col][1] >= ParseTimestamp(c.val)
      [] c.op = "in" -> row[c.col] # Null /\ row[c.col][1] \in c.val
      [] c.op = "not.is" -> row[c.col] # Null

Select(rows, query) ==
    {r \in rows : \A i \in 1..Len(query) : Matches(r, query[i])}

\* Every order of the rows that is descending in created_at: the order of
\* rows with equal created_at is the table's choice.
RECURSIVE OrderedDesc(_)
OrderedDesc(rows) ==
    IF rows = {} THEN {<<>>}
    ELSE UNION { { <<r>> \o rest : rest \in OrderedDesc(rows \ {r}) } :
                 r \in {m \in rows :
                          \A o \in rows : m.created_at[1] >= o.created_at[1]} }

\* The rows in the order the table stores them.
RECURSIVE InStoredOrder(_)
InStoredOrder(rows) ==
    IF rows = {} THEN <<>>
    ELSE LET first == CHOOSE r \in rows :
                          \A o \in rows : r.log_index <= o.log_index
         IN  <<first>> \o InStoredOrder(rows \ {first})

\* select(column).order(column): the column of every row, ascending, nulls
\* last.
RECURSIVE ColumnAscending(_, _)
ColumnAscending(rows, column) ==
    IF rows = {} THEN <<>>
    ELSE LET Before(a, b) ==
                 \/ b[column] = Null
                 \/ (a[column] # Null
                     /\ Collate(a[column][1]) <= Collate(b[column][1]))
             first == CHOOSE r \in rows :
                          /\ \A o \in rows : Before(r, o)
                          /\ \A o \in rows :
                                 Before(o, r) => r.log_index <= o.log_index
         IN  <<first[column]>> \o ColumnAscending(rows \ {first}, column)

(***************************************************************************)
(* The answers of the table: { data, error }, one of them null.            *)
(***************************************************************************)
Answer(data) == [data |-> Some(data), error |-> Null]

Failure == [data |-> Null, error |-> Some("error")]

\* What the duplicate scan can answer: the transaction_hash of the rows its
\* query selects, or a failure.
DuplicateHashesAnswers(rows) ==
    LET selected == InStoredOrder(Select(rows, DuplicateHashesQuery))
    IN  { Answer([i \in 1..Len(selected) |-> selected[i].transaction_hash[1]]),
          Failure }

\* What the filtered query can answer: the selected rows, newest first, or a
\* failure.
LogsAnswers(rows, query) ==
    {Answer(data) : data \in OrderedDesc(Select(rows, query))} \cup {Failure}

\* What the scan of a column can answer.
ColumnAnswers(rows, column) == {Answer(ColumnAscending(rows, column)), Failure}

(***************************************************************************)
(* fetchLogs.                                                              *)
(***************************************************************************)
\* duplicateHashes.reduce(...): how often each hash occurs in the answer.
RECURSIVE hashCounts(_, _)
hashCounts(data, acc) ==
    IF data = <<>> THEN acc
    ELSE LET curr == Head(data)
         IN  hashCounts(Tail(data),
                        [h \in DOMAIN acc \cup {curr} |->
                            IF h = curr
                            THEN (IF h \in DOMAIN acc THEN acc[h] ELSE 0) + 1
                            ELSE acc[h]])

\* Object.keys(hashCounts).filter((hash) => hashCounts[hash] > 1)
duplicates(counts) == {hash \in DOMAIN counts : counts[hash] > 1}

\* The query after the duplicate scan has answered.
WithDuplicates(query, answer) ==
    IF answer.data # Null
    THEN query \o <<in("transaction_hash",
                       duplicates(hashCounts(answer.data[1], <<>>)))>>
    ELSE query

\* The logs after the filtered query has answered.
LogsAfterMutant(prev, answer) ==
    IF answer.data # Null THEN answer.data[1] ELSE <<>>

LogsAfter(prev, answer) ==
    IF answer.error # Null THEN prev
    ELSE IF answer.data # Null THEN answer.data[1] ELSE <<>>

\* A call of fetchLogs up to its first await.
fetchLogs(f, g) ==
    [gen |-> g, query |-> BuildQuery(f),
     pc |-> IF f.showDuplicates THEN "duplicateHashes" ELSE "data"]

(***************************************************************************)
(* fetchFilterOptions.                                                     *)
(***************************************************************************)
\* Array.from(new Set(values)): the values in the order of their first
\* occurrence.
RECURSIVE UniqueInOrder(_, _)
UniqueInOrder(values, seen) ==
    IF values = <<>> THEN <<>>
    ELSE IF Head(values) \in seen THEN UniqueInOrder(Tail(values), seen)
    ELSE <<Head(values)>> \o UniqueInOrder(Tail(values), seen \cup {Head(values)})

\* .filter((value) => typeof value === "string"), on the column's values.
RECURSIVE OnlyStrings(_)
OnlyStrings(values) ==
    IF values = <<>> THEN <<>>
    ELSE (IF Head(values) # Null THEN <<Head(values)[1]>> ELSE <<>>)
         \o OnlyStrings(Tail(values))

fetchUniqueValuesMutant(answer) ==
    IF answer.error # Null \/ answer.data = Null THEN <<>>
    ELSE OnlyStrings(answer.data[1])

\* What fetchUniqueValues returns for an answer of the table.
fetchUniqueValues(answer) ==
    IF answer.error # Null \/ answer.data = Null THEN <<>>
    ELSE UniqueInOrder(OnlyStrings(answer.data[1]), {})

\* A call of fetchFilterOptions up to its first await.
fetchFilterOptions(g) == [gen |-> g, pc |-> "network", networks |-> <<>>]

(***************************************************************************)
(* The effect: runs after the first render and after every setFilters.     *)
(***************************************************************************)
NewOutcome(g) ==
    [gen |-> g, duplicateHashes |-> "none", data |-> "pending", logs |-> <<>>,
     network |-> "pending", strategy |-> "pending"]

useEffect(f) ==
    /\ started' = started + 1
    /\ logsTasks' = logsTasks \cup {fetchLogs(f, started + 1)}
    /\ optionsTasks' = optionsTasks \cup {fetchFilterOptions(started + 1)}
    /\ outcome' = NewOutcome(started + 1)

\* setFilters(next), the render it causes and the effect of that render.
setFilters(next) ==
    /\ started < MaxRefresh
    /\ filters' = next
    /\ useEffect(next)
    /\ UNCHANGED <<store, logs, networkOptions, strategyOptions, consoleErrors>>

Range(s) == {s[i] : i \in 1..Len(s)}

SelectNetwork ==
    \E value \in Range(networkOptions) :
        setFilters([filters EXCEPT !.network = value])

SelectStrategy ==
    \E value \in Range(strategyOptions) :
        setFilters([filters EXCEPT !.strategy = value])

ChangeBlockNumber ==
    \E value \in BlockNumberInputs :
        setFilters([filters EXCEPT !.block_number = value])

ChangeTransactionHash ==
    \E value \in TransactionHashInputs :
        setFilters([filters EXCEPT !.transaction_hash = value])

CheckRemoved ==
    \E checked \in CheckedInputs :
        setFilters([filters EXCEPT !.removed =
            IF checked = "indeterminate" THEN Null ELSE Some(checked = "true")])

SelectDate ==
    \E date \in DateInputs :
        setFilters([filters EXCEPT !.created_at = date])

CheckDuplicates ==
    \E checked \in {"true", "false"} :
        setFilters([filters EXCEPT !.showDuplicates = (checked = "true")])

(***************************************************************************)
(* The awaits: an answer arrives and the suspended call runs to its next   *)
(* await or to its end.                                                    *)
(***************************************************************************)
Note(field, value, g) ==
    IF g = outcome.gen THEN [outcome EXCEPT ![field] = value] ELSE outcome

Told(answer) == IF answer.error # Null THEN "failed" ELSE "ok"

DuplicateHashesResolve ==
    \E t \in logsTasks, answer \in DuplicateHashesAnswers(store) :
        /\ t.pc = "duplicateHashes"
        /\ logsTasks' = (logsTasks \ {t}) \cup
               {[t EXCEPT !.pc = "data", !.query = WithDuplicates(t.query, answer)]}
        /\ outcome' = Note("duplicateHashes", Told(answer), t.gen)
        /\ UNCHANGED <<store, filters, logs, networkOptions, strategyOptions,
                       optionsTasks, consoleErrors, started>>

LogsResolve ==
    \E t \in logsTasks :
        /\ t.pc = "data"
        /\ \E answer \in LogsAnswers(store, t.query) :
            /\ logs' = LogsAfter(logs, answer)
            /\ consoleErrors' = IF answer.error # Null
                                THEN consoleErrors \cup {"Error fetching logs:"}
                                ELSE consoleErrors
            /\ outcome' = IF t.gen = outcome.gen
                          THEN [outcome EXCEPT !.data = Told(answer),
                                               !.logs = LogsAfter(<<>>, answer)]
                          ELSE outcome
        /\ logsTasks' = logsTasks \ {t}
        /\ UNCHANGED <<store, filters, networkOptions, strategyOptions,
                       optionsTasks, started>>

NetworkOptionsResolve ==
    \E t \in optionsTasks, answer \in ColumnAnswers(store, "network") :
        /\ t.pc = "network"
        /\ optionsTasks' = (optionsTasks \ {t}) \cup
               {[t EXCEPT !.pc = "strategy", !.networks = fetchUniqueValues(answer)]}
        /\ consoleErrors' = IF answer.error # Null
                            THEN consoleErrors \cup {"Error fetching network options:"}
                            ELSE consoleErrors
        /\ outcome' = Note("network", Told(answer), t.gen)
        /\ UNCHANGED <<store, filters, logs, networkOptions, strategyOptions,
                       logsTasks, started>>

\* What fetchFilterOptions publishes once both columns have answered.
PublishedOptionsMutant(t, answer) ==
    IF answer.error # Null
    THEN <<networkOptions, strategyOptions>>
    ELSE <<t.networks, fetchUniqueValues(answer)>>

PublishedOptions(t, answer) == <<t.networks, fetchUniqueValues(answer)>>

StrategyOptionsResolve ==
    \E t \in optionsTasks, answer \in ColumnAnswers(store, "strategy") :
        /\ t.pc = "strategy"
        /\ networkOptions' = PublishedOptions(t, answer)[1]
        /\ strategyOptions' = PublishedOptions(t, answer)[2]
        /\ optionsTasks' = optionsTasks \ {t}
        /\ consoleErrors' = IF answer.error # Null
                            THEN consoleErrors \cup {"Error fetching strategy options:"}
                            ELSE consoleErrors
        /\ outcome' = Note("strategy", Told(answer), t.gen)
        /\ UNCHANGED <<store, filters, logs, logsTasks, started>>

(***************************************************************************)
(* Specifications.                                                         *)
(***************************************************************************)
Mounted(rows, f) ==
    /\ store = rows
    /\ filters = f
    /\ logs = <<>>
    /\ networkOptions = <<>>
    /\ strategyOptions = <<>>
    /\ consoleErrors = {}
    /\ started = 1
    /\ logsTasks = {fetchLogs(f, 1)}
    /\ optionsTasks = {fetchFilterOptions(1)}
    /\ outcome = NewOutcome(1)

\* The component after its first render and the effect of that render.
Init == Mounted(StoreOfSpec, InitialFilters)

Next ==
    \/ SelectNetwork
    \/ SelectStrategy
    \/ ChangeBlockNumber
    \/ ChangeTransactionHash
    \/ CheckRemoved
    \/ SelectDate
    \/ CheckDuplicates
    \/ DuplicateHashesResolve
    \/ LogsResolve
    \/ NetworkOptionsResolve
    \/ StrategyOptionsResolve

Spec == Init /\ [][Next]_vars

\* One run of the effect, for every table and every value of filters.
InitRefresh == \E rows \in Stores, f \in FilterStates : Mounted(rows, f)

NextRefresh ==
    \/ DuplicateHashesResolve
    \/ LogsResolve
    \/ NetworkOptionsResolve
    \/ StrategyOptionsResolve

SpecRefresh == InitRefresh /\ [][NextRefresh]_vars

(***************************************************************************)
(* Notions the properties are stated in.                                   *)
(***************************************************************************)
\* The hashes that occur in more than one row of the table.
HashesOccurringTwice(rows) ==
    {h \in {r.transaction_hash[1] : r \in {x \in rows : x.transaction_hash # Null}} :
        Cardinality({r \in rows : r.transaction_hash = Some(h)}) > 1}

\* The fields of Filters in the order of the interface.
FilterFields ==
    <<"network", "strategy", "block_number", "transaction_hash", "removed",
      "created_at">>

\* A field of the filters holds a value to filter by; block_number 0 counts
\* as holding none.
FieldIsSet(f, field) ==
    CASE field = "network" -> f.network # ""
      [] field = "strategy" -> f.strategy # ""
      [] field = "block_number" -> f.block_number \notin {Null, Some(0)}
      [] field = "transaction_hash" -> f.transaction_hash # ""
      [] field = "removed" -> f.removed # Null
      [] field = "created_at" -> f.created_at # Null

\* The columns the constraints of a query are on, the membership constraint
\* of the duplicate scan left out.
ConstrainedColumns(query) ==
    LET NotMembership(c) == c.op # "in"
        own == SelectSeq(query, NotMembership)
    IN  [i \in 1..Len(own) |-> own[i].col]

\* The values of a column that are strings.
StringsOf(rows, column) == {r[column][1] : r \in {x \in rows : x[column] # Null}}

\* Ascending in the collation, without repeats.
StrictlyAscending(values) ==
    \A i, j \in 1..Len(values) : i < j => Collate(values[i]) < Collate(values[j])

\* The newest run of the effect has published the answer of its query.
LogsPublished == outcome.data = "ok"

\* The newest fetchFilterOptions has published its lists.
OptionsPublished == outcome.strategy # "pending"

(***************************************************************************)
(* Properties.                                                             *)
(***************************************************************************)
\* C1: once every fetchLogs has completed, the published logs are the answer
\* to the query of the newest filters, in whatever order the answers of the
\* older and the newer fetch arrived.
C1_LatestFiltersWin ==
    (logsTasks = {} /\ started >= 2 /\ LogsPublished) => logs = outcome.logs

\* C2: the set the duplicate scan computes is exactly the set of hashes that
\* occur in more than one row of the whole table.
C2_DuplicateSetIsExact ==
    \A t \in logsTasks :
        (filters.showDuplicates /\ t.pc = "data"
            /\ outcome.duplicateHashes = "ok")
        => t.query[Len(t.query)].val = HashesOccurringTwice(store)

\* C3: when the duplicate scan of the newest run fails, a message that tells
\* this failure from the others is written and the run publishes no log
\* sequence.
C3_NoSilentFallback ==
    (filters.showDuplicates /\ outcome.duplicateHashes = "failed"
        /\ outcome.data # "pending")
    => /\ \E message \in consoleErrors :
            message \notin {"Error fetching logs:",
                            "Error fetching network options:",
                            "Error fetching strategy options:"}
       /\ ~LogsPublished

\* C4: with showDuplicates on and no hash occurring twice in the table, the
\* sequence the newest run publishes is empty.
C4_NoDuplicatesPublishesNothing ==
    (filters.showDuplicates /\ HashesOccurringTwice(store) = {} /\ LogsPublished)
    => outcome.logs = <<>>

\* C5: logs changes only to the full answer of a filtered query that
\* succeeded, and a failed filtered query is reported and leaves logs as it
\* was.
C5_FailureKeepsLogs ==
    [][ /\ logs' # logs =>
            \E t \in logsTasks \ logsTasks' :
                t.pc = "data" /\ Answer(logs') \in LogsAnswers(store, t.query)
        /\ (outcome.data = "pending" /\ outcome'.data = "failed") =>
            (logs' = logs /\ "Error fetching logs:" \in consoleErrors')
      ]_vars

C5_Witness ==
    /\ outcome.data = "failed"
    /\ logs # <<>>
    /\ "Error fetching logs:" \in consoleErrors

\* C6: a column whose scan succeeded is published whatever the other scan
\* answered, a failed scan is reported under the name of its column, the
\* logs a run publishes are the answer of its query whatever the scans
\* answered, and a step of one fetch leaves the other fetch and what it
\* published as they were.
C6_IndependentFetches ==
    [][ /\ (OptionsPublished /\ outcome.network = "ok")' =>
                (Range(networkOptions) = StringsOf(store, "network"))'
        /\ (OptionsPublished /\ outcome.strategy = "ok")' =>
                (Range(strategyOptions) = StringsOf(store, "strategy"))'
        /\ (outcome.network = "failed")' =>
                "Error fetching network options:" \in consoleErrors'
        /\ (outcome.strategy = "failed")' =>
                "Error fetching strategy options:" \in consoleErrors'
        /\ LogsPublished' => (logs = outcome.logs)'
        /\ optionsTasks' # optionsTasks =>
                (logs' = logs /\ logsTasks' = logsTasks)
        /\ logsTasks' # logsTasks =>
                /\ optionsTasks' = optionsTasks
                /\ networkOptions' = networkOptions
                /\ strategyOptions' = strategyOptions
      ]_vars

C6_Witness ==
    /\ OptionsPublished
    /\ outcome.network = "ok"
    /\ outcome.strategy = "failed"
    /\ networkOptions # <<>>
    /\ LogsPublished
    /\ logs # <<>>

\* C7: the query has one constraint for every set field of the filters and
\* no other, in the order network, strategy, block_number, transaction_hash,
\* removed, created_at; block_number 0 gives the query of block_number unset.
C7_OneConstraintPerSetField ==
    \A t \in logsTasks :
        LET IsSet(field) == FieldIsSet(filters, field)
        IN  /\ ConstrainedColumns(t.query) = SelectSeq(FilterFields, IsSet)
            /\ filters.block_number = Some(0) =>
                    ConstrainedColumns(t.query) =
                        ConstrainedColumns(
                            BuildQuery([filters EXCEPT !.block_number = Null]))

C7_Witness ==
    \E t \in logsTasks :
        /\ t.pc = "data"
        /\ filters.showDuplicates
        /\ filters.block_number = Some(0)
        /\ filters.network # ""
        /\ filters.created_at # Null
        /\ Len(t.query) = 3

\* C8: with showDuplicates on, every row the newest run publishes satisfies
\* the other filters, so is among the rows published with showDuplicates
\* off, and has a hash that occurs twice in the table.
C8_DuplicatesNarrow ==
    (filters.showDuplicates /\ LogsPublished) =>
        \A r \in Range(outcome.logs) :
            /\ r \in Select(store, BuildQuery(filters))
            /\ r.transaction_hash # Null
            /\ r.transaction_hash[1] \in HashesOccurringTwice(store)

\* C9: removed unset adds no constraint, true adds removed = true, false adds
\* removed = false, and with removed = false no published row has removed
\* null.
C9_RemovedIsTriState ==
    /\ \A t \in logsTasks :
        LET onRemoved == {i \in 1..Len(t.query) : t.query[i].col = "removed"}
        IN  /\ filters.removed = Null => onRemoved = {}
            /\ filters.removed # Null =>
                /\ Cardinality(onRemoved) = 1
                /\ \A i \in onRemoved : t.query[i] = eq("removed", filters.removed[1])
    /\ (filters.removed = Some(FALSE) /\ LogsPublished) =>
            \A r \in Range(logs) : r.removed = Some(FALSE)

C9_Witness ==
    /\ filters.removed = Some(FALSE)
    /\ LogsPublished
    /\ logs # <<>>
    /\ \E r \in Select(store, BuildQuery([filters EXCEPT !.removed = Null])) :
           r.removed = Null

\* C10, as claimed: the published list of a column is always the distinct
\* strings of the column, ascending.
C10_OptionsAreDistinctValues ==
    OptionsPublished =>
        /\ Range(networkOptions) = StringsOf(store, "network")
        /\ Range(strategyOptions) = StringsOf(store, "strategy")
        /\ StrictlyAscending(networkOptions)
        /\ StrictlyAscending(strategyOptions)

\* C10, amended: the published list of a column whose scan succeeded is the
\* distinct strings of the column, ascending and without repeats; the list
\* of a column whose scan failed is empty.
C10_OptionsOfAnsweredScans ==
    OptionsPublished =>
        /\ outcome.network = "ok" =>
            /\ Range(networkOptions) = StringsOf(store, "network")
            /\ StrictlyAscending(networkOptions)
        /\ outcome.network = "failed" => networkOptions = <<>>
        /\ outcome.strategy = "ok" =>
            /\ Range(strategyOptions) = StringsOf(store, "strategy")
            /\ StrictlyAscending(strategyOptions)
        /\ outcome.strategy = "failed" => strategyOptions = <<>>

C10_Witness ==
    /\ OptionsPublished
    /\ outcome.network = "ok"
    /\ outcome.strategy = "ok"
    /\ Len(networkOptions) = 2
    /\ Cardinality(store) >= 4
    /\ \E r \in store : r.network = Null

====
